---- MODULE Spec2Model ----
(***************************************************************************)
(* Exchange (EWS) calendar adapter of cal.com: ExchangeCalendarService     *)
(* (two revisions of CalendarService.ts are in the repository), the        *)
(* ExchangeConfigValidator and the add-credential route handler.           *)
(*                                                                         *)
(* An adapter operation is an async function: it runs without interruption *)
(* up to its next await.  Each action below is one such uninterrupted run  *)
(* of one caller, or the completion of one remote call it awaits.          *)
(***************************************************************************)
EXTENDS Integers, Sequences, FiniteSets, TLC

VARIABLES
    impl,             \* which revision of the adapter class is loaded
    credential,       \* the stored credential blob handed to the constructor
    envKey,           \* process.env.CALENDSO_ENCRYPTION_KEY ("" when unset)
    folders,          \* remote mailbox: folders in the order the server lists them
    appointments,     \* remote mailbox: appointments of each folder
    scope,            \* what the host and the libraries do in this run: the call
                      \* slots in use, the events, uids and getAvailability
                      \* arguments passed, the messages of the errors library
                      \* calls throw, the errors remote calls fail with, the
                      \* number of handles built before the run is cut off
    adapter,          \* "unbuilt" | "live" | "failed"
    ctorError,        \* what the constructor threw
    payload,          \* this.payload
    exchangeService,  \* this._exchangeService (NoHandle when undefined)
    constructed,      \* number of `new ExchangeService` evaluated so far
    cleaned,          \* cleanup() has returned at least once
    mark,             \* value of `constructed` when cleanup() last returned
    cleanupError,     \* what the last cleanup() threw to its caller ("none")
    nodeOptions,      \* process.env.NODE_OPTIONS, a list of flags (<<>> when unset)
    bootOptions,      \* NODE_OPTIONS as the operator started the process with
    remoteCalls,      \* some request has been sent to the server
    items,            \* remote mailbox: the appointments created by the adapter
    proc,             \* per call slot: the operation in progress and its locals
    validation,       \* the calls of ExchangeConfigValidator made so far, each
                      \* with the config passed and the value returned
    handler,          \* the add-credential request in progress: where getHandler
                      \* stands, its parsed body, its probe and its response
    credentialStore   \* number of records prisma.credential.create has written

world == <<impl, credential, envKey, folders, appointments, scope, validation,
           handler, credentialStore, bootOptions>>
adapterVars == <<adapter, ctorError, payload, exchangeService, constructed, cleaned, mark,
                 cleanupError, nodeOptions>>
remoteVars == <<remoteCalls, items>>
vars == <<world, adapterVars, remoteVars, proc>>

-----------------------------------------------------------------------------
(* Bounds *)

MaxProcs == 2
MaxHandles == 2       \* handles built in a run of concurrent calls
MaxSeqHandles == 3    \* handles built in a run of one call at a time
MaxItems == 2
MaxQueries == 3
MaxAttendees == 5     \* required attendees an item may come to hold

NoHandle == 0
Uids == 1..MaxItems
Events == 1..4

-----------------------------------------------------------------------------
(* Credentials and configuration *)

STANDARD == 0
NTLM == 1

\* A decrypted config: which of the required fields are non-empty, and the
\* authentication method.
Configs ==
    [url: BOOLEAN, username: BOOLEAN, password: BOOLEAN,
     authenticationMethod: {STANDARD, NTLM}]

NoPayload == [url |-> FALSE, username |-> FALSE, password |-> FALSE,
              authenticationMethod |-> STANDARD]

FullConfig(auth) == [url |-> TRUE, username |-> TRUE, password |-> TRUE,
                     authenticationMethod |-> auth]

\* A stored blob: well-formed "iv:ciphertext" or not, the key it was encrypted
\* under, whether the plaintext is JSON, and the config the JSON holds.
Blobs ==
    [wellFormed: BOOLEAN, key: {"k1", "k2"}, json: BOOLEAN, config: Configs]

\* symmetricDecrypt(text, key) throws on a blob that is not iv:ciphertext, on an
\* empty key and on a key other than the one the blob was encrypted under.
symmetricDecryptThrows(blob, key) ==
    \/ ~blob.wellFormed
    \/ key = ""
    \/ key # blob.key

\* JSON.parse(symmetricDecrypt(...)) throws.
parseThrows(blob, key) ==
    symmetricDecryptThrows(blob, key) \/ ~blob.json

\* The error the constructor lets out when parseThrows: part_000 catches and
\* throws its own, part_001 has no try/catch and the raw error escapes.
constructorError(rev) ==
    IF rev = "part_000" THEN "CredentialError" ELSE "RawError"

\* !payload?.url || !payload?.username || !payload?.password
missingRequired(cfg) ==
    ~cfg.url \/ ~cfg.username \/ ~cfg.password

-----------------------------------------------------------------------------
(* Errors.  The code throws plain Error objects told apart by their message; *)
(* an error is modelled by the name of its message.                          *)

\* The substrings the catch block of getExchangeService looks for.
Markers == {"401", "timeout", "ENOTFOUND", "certificate", "digital envelope"}

\* A library call inside the try block either returns (NoFault) or throws an
\* error whose message holds one of the markers or none of them ("other").
NoFault == {}
LibFaults ==
    {NoFault} \cup {{"other"}} \cup {{m} : m \in Markers} \cup
    { {"401", "timeout"}, {"ENOTFOUND", "certificate"},
      {"certificate", "digital envelope"}, {"401", "digital envelope"} }

\* An error caught by the catch block of getExchangeService: what it is and
\* the markers its message holds.
thrownError(name, markers) == [name |-> name, markers |-> markers]
NoError == thrownError("", {})

\* The words by which the catch block of part_000 knows the errors the try
\* block threw itself (lines 268-272).
CustomMarkers == {"NODE_OPTIONS", "Missing required", "NTLM authentication failed"}

\* part_000 line 215
ConfigErrorThrown == thrownError("ConfigError", {"Missing required"})

\* An error a library call threw, with the markers of its message.
libraryError(markers) == thrownError("LibError", markers \ {"other"})

\* part_000 lines 266-304: the message of the error leaving the catch block,
\* for an error thrown by a library call whose message holds `markers`.
classify000(markers) ==
    IF "401" \in markers THEN "AuthError"
    ELSE IF "timeout" \in markers \/ "ENOTFOUND" \in markers THEN "ConnectivityError"
    ELSE IF "certificate" \in markers THEN "TlsError"
    ELSE IF "digital envelope" \in markers THEN "EnvironmentError"
    ELSE "LibError"

\* part_001 lines 240-256: the legacy-crypto marker is tested first, ENOTFOUND
\* and the certificate markers are not tested at all.
classify001(markers) ==
    IF "digital envelope" \in markers THEN "EnvironmentError"
    ELSE IF "401" \in markers THEN "AuthError"
    ELSE IF "timeout" \in markers THEN "ConnectivityError"
    ELSE "LibError"

\* part_000 lines 233-251: the error thrown when the NTLM transport cannot be
\* set up; the outer catch re-throws both unchanged (lines 268-274).
ntlmSetupError(markers) ==
    IF "digital envelope" \in markers THEN "EnvironmentError" ELSE "AuthSetupError"

\* part_000 lines 233-251, as the outer catch sees them: the first message
\* holds "NODE_OPTIONS" and, in "OpenSSL", the marker "SSL"; the second holds
\* "NTLM authentication failed" and the whole message of the error it wraps.
ntlmSetupThrown(markers) ==
    IF ntlmSetupError(markers) = "EnvironmentError"
    THEN thrownError("EnvironmentError", {"NODE_OPTIONS", "certificate"})
    ELSE thrownError("AuthSetupError",
                     {"NTLM authentication failed"} \cup (markers \ {"other"}))

\* part_000 lines 262-305: the error that leaves the catch block
outerCatch000(error) ==
    IF error.markers \cap CustomMarkers # {} THEN error.name
    ELSE IF classify000(error.markers) # "LibError" THEN classify000(error.markers)
    ELSE error.name

\* part_001 lines 236-257: the error that leaves the catch block
outerCatch001(error) ==
    IF classify001(error.markers) # "LibError" THEN classify001(error.markers)
    ELSE error.name

\* What a remote call may fail with, other than the server's "item not found".
RemoteFaults == {"ETIMEDOUT", "401 Unauthorized"}

\* A catch that classifies the reason as the catch of getExchangeService does.
rethrowClassified(reason) ==
    IF reason = "401 Unauthorized" THEN "AuthError" ELSE reason

\* .catch((reason) => { this.log.error(..., reason); throw reason; }) of the
\* five operations: the error that leaves the handler
rethrow(reason) == reason

AcquisitionErrors ==
    {"ConfigError", "AuthError", "ConnectivityError", "TlsError",
     "EnvironmentError", "AuthSetupError", "LibError"}

-----------------------------------------------------------------------------
(* getExchangeService, up to its first await *)

LegacyProvider == "--openssl-legacy-provider"

\* part_001 lines 207-212: the flag is appended to NODE_OPTIONS, or becomes
\* its value, unless it is there already
setLegacyProvider(env) ==
    IF env # <<>> /\ (\A i \in DOMAIN env : env[i] # LegacyProvider)
    THEN Append(env, LegacyProvider)
    ELSE IF env = <<>> THEN << LegacyProvider >>
    ELSE env

\* if (this._exchangeService) return this._exchangeService
\* The cache test left out: every call builds a handle.
cacheHitNever(cache) == FALSE

cacheHit(cache) == cache # NoHandle

\* The result of running getExchangeService from its entry to its return, its
\* throw or its await of import("@ewsjs/xhr"):
\*   err      the error thrown ("" when none)
\*   caught   the error its catch block caught (NoError when none)
\*   svc      the handle returned (NoHandle when none yet)
\*   pending  the handle built and waiting for the NTLM transport
\*   cache    this._exchangeService afterwards
\*   count    the construction counter afterwards
\*   env      process.env.NODE_OPTIONS afterwards
getExchangeService(cache, count, env, fault) ==
    LET thrown(e) == [err |-> IF impl = "part_000" THEN outerCatch000(e)
                                      ELSE outerCatch001(e),
                      caught |-> e, svc |-> NoHandle, pending |-> NoHandle,
                      cache |-> cache, count |-> count, env |-> env]
        h == count + 1
    IN  IF impl = "part_000"
        THEN IF cacheHit(cache)
             THEN [err |-> "", caught |-> NoError, svc |-> cache, pending |-> NoHandle,
                   cache |-> cache, count |-> count, env |-> env]
             ELSE IF missingRequired(payload) THEN thrown(ConfigErrorThrown)
             ELSE IF fault # NoFault THEN thrown(libraryError(fault))
             ELSE IF payload.authenticationMethod = NTLM
             THEN [err |-> "", caught |-> NoError, svc |-> NoHandle, pending |-> h,
                   cache |-> cache, count |-> h, env |-> env]
             ELSE [err |-> "", caught |-> NoError, svc |-> h, pending |-> NoHandle,
                   cache |-> h, count |-> h, env |-> env]
        ELSE \* part_001: no cache, no check of the required fields
             IF fault # NoFault THEN thrown(libraryError(fault))
             ELSE IF payload.authenticationMethod = NTLM
             THEN [err |-> "", caught |-> NoError, svc |-> NoHandle, pending |-> h,
                   cache |-> cache, count |-> h,
                   env |-> setLegacyProvider(env)]
             ELSE [err |-> "", caught |-> NoError, svc |-> h, pending |-> NoHandle,
                   cache |-> cache, count |-> h, env |-> env]

-----------------------------------------------------------------------------
(* The remote mailbox, as the EWS calls of the adapter see it *)

MsgFolderRoot == "msgfolderroot"
DeletedItems == "deleteditems"
CalendarClass == "IPF.Appointment"
NoName == "<undefined>"
PageSize == 1000
MaxDepth == 3

Free == "Free"
Busy == "Busy"
Tentative == "Tentative"
OOF == "OOF"

\* An item the adapter created: where it is now ("none" before Save, then
\* "calendar", then "deleteditems") and the event whose fields it holds.
NoItem == [where |-> "none", ev |-> 0, location |-> "", body |-> "", attendees |-> <<>>]

\* The CalendarEvent values the host passes.  An event's number stands for
\* its title and its start and end times; location, description and
\* team are optional.
NoTeam == [defined |-> FALSE, members |-> <<>>]
Team(members) == [defined |-> TRUE, members |-> members]

CalendarEvent(e) ==
    CASE e = 3 -> [location |-> NoName, description |-> "agenda",
                   attendees |-> <<"ann">>, team |-> Team(<<"tom">>)]
      [] e = 4 -> [location |-> "room", description |-> NoName,
                   attendees |-> <<"bob", "ann">>, team |-> NoTeam]
      [] OTHER -> [location |-> "", description |-> "",
                   attendees |-> <<>>, team |-> NoTeam]

\* x || ""
orEmpty(x) == IF x = NoName THEN "" ELSE x

\* event.attendees followed by event.team.members, when there is a team
attendeesThenTeam(e) ==
    CalendarEvent(e).attendees
        \o (IF CalendarEvent(e).team.defined THEN CalendarEvent(e).team.members ELSE <<>>)

\* The two forEach loops of RequiredAttendees.Add: the entries are added
\* after those the appointment object already holds.
addAttendees(held, e) == held \o attendeesThenTeam(e)

\* The assignments createEvent and updateEvent make to the appointment
\* object before it is sent: part_000 lines 65-77 and 101-113.
assignFields(appointment, e) ==
    [appointment EXCEPT !.ev = e,
                        !.location = orEmpty(CalendarEvent(e).location),
                        !.body = orEmpty(CalendarEvent(e).description),
                        !.attendees = addAttendees(appointment.attendees, e)]

RECURSIVE isUnder(_, _, _, _)
\* Folder `id` lies below `root` in the tree `fs`, at most `fuel` levels down.
isUnder(fs, id, root, fuel) ==
    IF fuel = 0 THEN FALSE
    ELSE \E i \in DOMAIN fs :
            /\ fs[i].id = id
            /\ \/ fs[i].parent = root
               \/ isUnder(fs, fs[i].parent, root, fuel - 1)

\* folder.ChildFolderCount, kept by the server
childFolderCount(fs, id) == Cardinality({i \in DOMAIN fs : fs[i].parent = id})

RECURSIVE filterSeq(_, _)
\* s.filter(i => keep[i]), for keep a function on the indices of s
filterSeq(s, keep) ==
    IF s = <<>> THEN <<>>
    ELSE LET n == Len(s)
             front == filterSeq(SubSeq(s, 1, n - 1), keep)
         IN  IF keep[n] THEN Append(front, s[n]) ELSE front

\* service.FindFolders(MsgFolderRoot, FolderClass = "IPF.Appointment", Deep
\* view of 1000): the matching folders below the root, in server order.
findFolders(fs) ==
    LET keep == [i \in DOMAIN fs |->
                    /\ fs[i].class = CalendarClass
                    /\ isUnder(fs, fs[i].id, MsgFolderRoot, MaxDepth)]
        found == filterSeq(fs, keep)
    IN  SubSeq(found, 1, IF Len(found) < PageSize THEN Len(found) ELSE PageSize)

\* listCalendars without its filter: every folder found is kept.
keepFolderAll(folder, deletedItemsId) == TRUE

\* listCalendars lines 189-191: the folders that survive the filter
keepFolder(folder, deletedItemsId) == folder.parent # deletedItemsId

\* listCalendars lines 192-197: one IntegrationCalendar
toIntegrationCalendarLeaf(fs, folder) ==
    [externalId |-> folder.id,
     name |-> IF folder.name = NoName THEN "" ELSE folder.name,
     primary |-> FALSE,
     integration |-> "exchange_calendar"]

toIntegrationCalendar(fs, folder) ==
    [externalId |-> folder.id,
     name |-> IF folder.name = NoName THEN "" ELSE folder.name,
     primary |-> childFolderCount(fs, folder.id) > 0,
     integration |-> "exchange_calendar"]

\* listCalendars lines 188-198: the .then of FindFolders
listCalendarsResult(fs, deletedItemsId) ==
    LET res == findFolders(fs)
        kept == filterSeq(res, [i \in DOMAIN res |-> keepFolder(res[i], deletedItemsId)])
    IN  [i \in DOMAIN kept |-> toIntegrationCalendar(fs, kept[i])]

\* Where the server puts an item deleted with the given DeleteMode: a hard
\* delete purges it, a soft delete leaves it in the dumpster, a move takes it
\* to the Deleted Items folder.
afterDelete(mode) ==
    CASE mode = "HardDelete" -> "purged"
      [] mode = "SoftDelete" -> "dumpster"
      [] mode = "MoveToDeletedItems" -> "deleteditems"

deleteModeHard == "HardDelete"

\* The mode deleteEvent passes to appointment.Delete: line 137
deleteMode == "MoveToDeletedItems"

\* A slip in the id handed to Appointment.Bind: the first item, whatever uid
\* the host passed.
bindTargetFirst(uid) == 1

\* new ItemId(uid): the item updateEvent and deleteEvent bind to
bindTarget(uid) == uid

-----------------------------------------------------------------------------
(* Call slots *)

Procs == 1..MaxProcs

request(sel, from, to) == [sel |-> sel, from |-> from, to |-> to]
NoRequest == request(<< >>, 0, 0)

Idle ==
    [op |-> "idle", pc |-> "idle", svc |-> NoHandle, pending |-> NoHandle,
     uid |-> 0, ev |-> 0, itemId |-> 0, bound |-> NoItem, startMark |-> 0, whereAtStart |-> "none",
     deletedItemsFolder |-> "", req |-> NoRequest, queries |-> <<>>,
     firstFailed |-> 0, raised |-> "none", caught |-> NoError, ntlmError |-> NoFault,
     answered |-> <<>>, result |-> "none", retList |-> <<>>]

\* The slot of an operation that has settled with `result`: what the host gets
\* (the result, the uid and the list returned) beside the call's arguments;
\* the locals of the operation are gone.
settled(slot, result) ==
    [Idle EXCEPT !.op = slot.op, !.pc = "done", !.uid = slot.uid,
                 !.whereAtStart = slot.whereAtStart, !.req = slot.req,
                 !.itemId = slot.itemId, !.retList = slot.retList,
                 !.queries = slot.queries, !.firstFailed = slot.firstFailed,
                 !.raised = slot.raised, !.caught = slot.caught,
                 !.ntlmError = slot.ntlmError, !.answered = slot.answered,
                 !.result = result]

\* The first remote call of an operation, once it holds the handle.
firstCall(op) ==
    CASE op = "createEvent" -> "save"
      [] op \in {"updateEvent", "deleteEvent"} -> "bind"
      [] OTHER -> "bindDeleted"

\* Some uid the server has not handed out yet is left for every Save in flight.
freeUids == {u \in Uids : items[u].where = "none"}
savesInFlight == {p \in Procs : proc[p].op = "createEvent" /\ proc[p].pc # "done"}

\* The slot of an operation that starts now: getExchangeService is called and
\* runs to its first await within the same uninterrupted run.
started(op, a, fields) ==
    LET slot == [fields EXCEPT !.op = op, !.svc = a.svc, !.pending = a.pending,
                               !.startMark = mark,
                               !.pc = IF a.pending # NoHandle THEN "import"
                                      ELSE firstCall(op)]
    IN  IF a.err # "" THEN settled([slot EXCEPT !.caught = a.caught], a.err) ELSE slot

canStart(p) ==
    /\ adapter = "live"
    /\ p \in scope.callers
    /\ proc[p].pc = "idle"

begin(p, op, fields) ==
    \E fault \in scope.faults :
        LET a == getExchangeService(exchangeService, constructed, nodeOptions, fault)
            slot == started(op, a, fields)
        IN  /\ a.count <= scope.handles
            /\ proc' = [proc EXCEPT ![p] = slot]
            /\ exchangeService' = a.cache
            /\ constructed' = a.count
            /\ remoteCalls' = (remoteCalls \/ slot.pc = firstCall(op))
            /\ nodeOptions' = a.env
            /\ UNCHANGED <<world, adapter, ctorError, payload, cleaned, mark, cleanupError, items>>

-----------------------------------------------------------------------------
(* getAvailability: the fan-out over the selected calendars and the join *)

\* lines 150: calendars.filter(lcal => selectedCalendars.some(rcal => ...))
\* getAvailability without its filter: every listed calendar is queried.
selectedOfAll(calendars, sel) == calendars

\* line 150: the listed calendars whose externalId some selected calendar has
selectedOf(calendars, sel) ==
    filterSeq(calendars,
              [i \in DOMAIN calendars |->
                  \E j \in DOMAIN sel : sel[j] = calendars[i].externalId])

\* FindAppointments(folder, CalendarView(from, to)): the server returns the
\* appointments of the folder that overlap the window, in its own order.
findAppointments(folderId, from, to) ==
    LET all == appointments[folderId]
    IN  filterSeq(all, [i \in DOMAIN all |-> all[i].start < to /\ all[i].end > from])

\* The status test left out: every appointment counts as busy.
isBusyAlways(appointment) == TRUE

\* lines 158-159: the appointments that count as busy
isBusy(appointment) == appointment.status # Free

\* lines 158-165: the .then of FindAppointments
busyDates(items_) ==
    LET kept == filterSeq(items_, [i \in DOMAIN items_ |-> isBusy(items_[i])])
    IN  [i \in DOMAIN kept |-> [start |-> kept[i].start, end |-> kept[i].end]]

RECURSIVE flatBackwards(_)
\* The lists joined last to first.
flatBackwards(lists) ==
    IF lists = <<>> THEN <<>> ELSE flatBackwards(Tail(lists)) \o Head(lists)

RECURSIVE flat(_)
\* x.flat()
flat(lists) ==
    IF lists = <<>> THEN <<>> ELSE Head(lists) \o flat(Tail(lists))

RECURSIVE fanOut(_, _, _, _, _)
\* lines 151-152: the async callbacks of .map run one after the other, each up
\* to its first await, so each calls getExchangeService on the cache the
\* previous one left.
fanOut(chosen, faults, cache, count, env) ==
    IF chosen = <<>> THEN [queries |-> <<>>, cache |-> cache, count |-> count, env |-> env]
    ELSE LET n == Len(chosen)
             front == fanOut(SubSeq(chosen, 1, n - 1), faults, cache, count, env)
             a == getExchangeService(front.cache, front.count, front.env, faults[n])
             q == [cal |-> chosen[n].externalId,
                   st |-> IF a.err # "" THEN "failed"
                          ELSE IF a.pending # NoHandle THEN "import" ELSE "find",
                   svc |-> a.svc, pending |-> a.pending, err |-> a.err,
                   busy |-> <<>>]
         IN  [queries |-> Append(front.queries, q), cache |-> a.cache, count |-> a.count,
              env |-> a.env]

failedQueries(qs) == {i \in DOMAIN qs : qs[i].st = "failed"}
allFulfilled(qs) == \A i \in DOMAIN qs : qs[i].st = "ok"
inFlight(qs) == {i \in DOMAIN qs : qs[i].st \in {"import", "find"}}
Min(S) == CHOOSE x \in S : \A y \in S : x <= y

\* The query that was the first to fail, when query i fails now.
firstFailure(slot, i) == IF slot.firstFailed = 0 THEN i ELSE slot.firstFailed

\* A join that tolerates failures, as Promise.allSettled would: once no query
\* is in flight it returns what the fulfilled ones found.
joinedSettled(slot, i) ==
    IF slot.pc = "done"
    THEN [slot EXCEPT !.queries[i].busy = <<>>, !.queries[i].svc = NoHandle]
    ELSE IF inFlight(slot.queries) = {}
    THEN settled([slot EXCEPT
                     !.retList = flat([k \in DOMAIN slot.queries |-> slot.queries[k].busy]),
                     !.queries = [k \in DOMAIN slot.queries |->
                                     [slot.queries[k] EXCEPT !.busy = <<>>, !.svc = NoHandle]]],
                 "ok")
    ELSE slot

\* line 172, Promise.all(promises).then(x => x.flat()), looked at after query i
\* settled: the slot once the join has an outcome, the slot unchanged before.
joined(slot, i) ==
    IF slot.pc = "done"
    THEN [slot EXCEPT !.queries[i].busy = <<>>, !.queries[i].svc = NoHandle]
    ELSE IF slot.queries[i].st = "failed"
    THEN settled([slot EXCEPT !.queries =
                     [k \in DOMAIN slot.queries |->
                         [slot.queries[k] EXCEPT !.busy = <<>>]]],
                 slot.queries[i].err)
    ELSE IF allFulfilled(slot.queries)
    THEN settled([slot EXCEPT
                     !.retList = flat([k \in DOMAIN slot.queries |-> slot.queries[k].busy]),
                     !.queries = [k \in DOMAIN slot.queries |->
                                     [slot.queries[k] EXCEPT !.busy = <<>>, !.svc = NoHandle]]],
                 "ok")
    ELSE slot

-----------------------------------------------------------------------------
(* ExchangeConfigValidator.  Strings are sequences of characters; a URL    *)
(* text is given by the parts the WHATWG parser splits it into: the scheme *)
(* before "://" ("" when the text has none), the host, and the segments    *)
(* of the path, each preceded by "/".                                      *)

Fields == {"url", "username", "password", "authenticationMethod", "exchangeVersion"}

urlText(scheme, host, path) == [scheme |-> scheme, host |-> host, path |-> path]
EmptyText == urlText("", "", <<>>)

\* String.prototype.toLowerCase on the words the texts are made of
toLowerCase(word) ==
    CASE word = "HTTPS" -> "https"
      [] word = "EWS" -> "ews"
      [] word = "Exchange.asmx" -> "exchange.asmx"
      [] word = "Exchange.asmx.old" -> "exchange.asmx.old"
      [] word = "Microsoft-Server-ActiveSync" -> "microsoft-server-activesync"
      [] OTHER -> word

\* word.startsWith(prefix), on lower-case words
startsWith(word, prefix) ==
    \/ word = prefix
    \/ word = "exchange.asmx.old" /\ prefix = "exchange.asmx"

\* new URL(text) with no base: throws on a text without a scheme or without
\* a host; otherwise the scheme is lower-cased and the path kept as written.
parseUrl(text) ==
    IF text.scheme = "" \/ text.host = ""
    THEN [ok |-> FALSE, protocol |-> "", pathname |-> <<>>]
    ELSE [ok |-> TRUE, protocol |-> toLowerCase(text.scheme), pathname |-> text.path]

\* path.includes("/" + word + "/"): a segment equal to word, followed by "/"
includesDir(path, word) ==
    \E i \in 1..(Len(path) - 1) : path[i] = word

\* path.includes("/" + word): a segment that starts with word
includesPrefix(path, word) ==
    \E i \in DOMAIN path : startsWith(path[i], word)

\* isValidEwsUrl without the test of the protocol: any scheme passes.
isValidEwsUrlAnyScheme(url) ==
    LET urlObj == parseUrl(url)
        path == [i \in DOMAIN urlObj.pathname |-> toLowerCase(urlObj.pathname[i])]
    IN  IF ~urlObj.ok THEN FALSE
        ELSE \/ includesDir(path, "ews")
             \/ includesPrefix(path, "exchange.asmx")
             \/ includesPrefix(path, "microsoft-server-activesync")

\* part_002 lines 67-86
isValidEwsUrl(url) ==
    LET urlObj == parseUrl(url)
        path == [i \in DOMAIN urlObj.pathname |-> toLowerCase(urlObj.pathname[i])]
    IN  IF ~urlObj.ok THEN FALSE
        ELSE IF urlObj.protocol # "https" THEN FALSE
        ELSE \/ includesDir(path, "ews")
             \/ includesPrefix(path, "exchange.asmx")
             \/ includesPrefix(path, "microsoft-server-activesync")

\* part_002 lines 91-94: /^[^\s@]+@[^\s@]+\.[^\s@]+$/
isValidEmail(email) ==
    /\ \A k \in DOMAIN email : email[k] # " "
    /\ \E i, j \in DOMAIN email :
          /\ email[i] = "@" /\ email[j] = "."
          /\ 1 < i /\ i + 1 < j /\ j < Len(email)
          /\ \A k \in DOMAIN email : k # i => email[k] # "@"

\* Object.values(ExchangeAuthentication) and Object.values(ExchangeVersion),
\* as far as numbers are concerned
AuthenticationValues == {STANDARD, NTLM}
Exchange2013 == 4
Exchange2016 == 7
LastVersion == 8
VersionValues == 0..LastVersion

\* A Partial<ExchangeConfig>: the fields it lacks, and the values of the rest.
\* JavaScript's !s holds of an absent and of an empty string.
missing(config, f) == f \in config.absent
falsy(config, f) ==
    \/ missing(config, f)
    \/ IF f = "url" THEN config.url = EmptyText ELSE config[f] = <<>>

\* part_002 lines 16-62 with a return after the first error found
validateFirst(config) ==
    LET all ==
            (IF falsy(config, "url") THEN << "Exchange URL is required" >>
             ELSE IF ~isValidEwsUrl(config.url)
             THEN << "URL must be a valid Exchange Web Services (EWS) endpoint" >>
             ELSE <<>>)
            \o (IF falsy(config, "username") THEN << "Username is required" >>
                ELSE IF ~isValidEmail(config.username)
                THEN << "Username must be a valid email address" >>
                ELSE <<>>)
            \o (IF falsy(config, "password") THEN << "Password is required" >> ELSE <<>>)
        errors == IF all = <<>> THEN <<>> ELSE << Head(all) >>
    IN  [isValid |-> Len(errors) = 0, errors |-> errors]

\* part_002 lines 16-62 without the two enum rules of lines 42-56
validateRequiredOnly(config) ==
    LET errors ==
            (IF falsy(config, "url") THEN << "Exchange URL is required" >>
             ELSE IF ~isValidEwsUrl(config.url)
             THEN << "URL must be a valid Exchange Web Services (EWS) endpoint" >>
             ELSE <<>>)
            \o (IF falsy(config, "username") THEN << "Username is required" >>
                ELSE IF ~isValidEmail(config.username)
                THEN << "Username must be a valid email address" >>
                ELSE <<>>)
            \o (IF falsy(config, "password") THEN << "Password is required" >> ELSE <<>>)
    IN  [isValid |-> Len(errors) = 0, errors |-> errors]

\* part_002 lines 16-62
validate(config) ==
    LET urlErrors ==
            IF falsy(config, "url") THEN << "Exchange URL is required" >>
            ELSE IF ~isValidEwsUrl(config.url)
            THEN << "URL must be a valid Exchange Web Services (EWS) endpoint" >>
            ELSE <<>>
        usernameErrors ==
            IF falsy(config, "username") THEN << "Username is required" >>
            ELSE IF ~isValidEmail(config.username)
            THEN << "Username must be a valid email address" >>
            ELSE <<>>
        passwordErrors ==
            IF falsy(config, "password") THEN << "Password is required" >>
            ELSE IF Len(config.password) < 1 THEN << "Password cannot be empty" >>
            ELSE <<>>
        authenticationErrors ==
            IF /\ ~missing(config, "authenticationMethod")
               /\ config.authenticationMethod \notin AuthenticationValues
            THEN << "Invalid authentication method" >>
            ELSE <<>>
        versionErrors ==
            IF /\ ~missing(config, "exchangeVersion")
               /\ config.exchangeVersion \notin VersionValues
            THEN << "Invalid Exchange version" >>
            ELSE <<>>
        errors == urlErrors \o usernameErrors \o passwordErrors
                  \o authenticationErrors \o versionErrors
    IN  [isValid |-> Len(errors) = 0, errors |-> errors]

UseHttps == "Consider using HTTPS instead of HTTP for better security"
EwsPath == "EWS URL typically ends with '/ews/Exchange.asmx'"
NtlmOptions == "NTLM authentication may require NODE_OPTIONS='--openssl-legacy-provider' for older Exchange servers"
Upgrade == "Consider upgrading to Exchange 2013 or later for better compatibility"

\* part_002 lines 98-125.  new URL(config.url) is not guarded: when it
\* throws, the call throws and returns no list.
getSuggestions(config) ==
    LET urlObj == parseUrl(config.url)
        path == [i \in DOMAIN urlObj.pathname |-> toLowerCase(urlObj.pathname[i])]
        urlSuggestions ==
            IF falsy(config, "url") THEN <<>>
            ELSE (IF urlObj.protocol = "http" THEN << UseHttps >> ELSE <<>>)
                 \o (IF ~includesDir(path, "ews") THEN << EwsPath >> ELSE <<>>)
        ntlmSuggestions ==
            IF /\ ~missing(config, "authenticationMethod")
               /\ config.authenticationMethod = NTLM
            THEN << NtlmOptions >>
            ELSE <<>>
        versionSuggestions ==
            IF /\ ~missing(config, "exchangeVersion")
               /\ config.exchangeVersion # 0
               /\ config.exchangeVersion < Exchange2013
            THEN << Upgrade >>
            ELSE <<>>
    IN  IF ~falsy(config, "url") /\ ~urlObj.ok
        THEN [threw |-> TRUE, suggestions |-> <<>>]
        ELSE [threw |-> FALSE,
              suggestions |-> urlSuggestions \o ntlmSuggestions \o versionSuggestions]

\* The candidate configs the validator is called with.
UrlTexts ==
    { EmptyText,
      urlText("", "mail.x.com", << "ews", "Exchange.asmx" >>),
      urlText("https", "", <<>>),
      urlText("https", "mail.x.com", << "ews", "Exchange.asmx" >>),
      urlText("HTTPS", "mail.x.com", << "EWS", "a" >>),
      urlText("http", "x", << "ews", "a" >>),
      urlText("https", "x", << "ews" >>),
      urlText("https", "x", << "owa", "Exchange.asmx.old" >>),
      urlText("https", "x", << "Microsoft-Server-ActiveSync" >>),
      urlText("https", "x", << "owa" >>),
      urlText("https", "x", <<>>) }

Usernames ==
    { <<>>, << "a", "@", "b", ".", "c" >>, << "a", "@", "b", ".", "c", "o", "m" >>, << "a", "b" >>, << "a", "@", "b" >>,
      << "a", " ", "@", "b", ".", "c" >>, << "a", "@", "@", "b", ".", "c" >>,
      << "@", "b", ".", "c" >> }

Passwords == { <<>>, << "p" >> }
AuthenticationInputs == {-1, STANDARD, NTLM, 2}
VersionInputs == {-1, 0, Exchange2013, Exchange2016, LastVersion, LastVersion + 1}

\* Absent fields hold a fixed value, so that a config is written in one way.
candidate(absent, url, username, password, authenticationMethod, exchangeVersion) ==
    [absent |-> absent,
     url |-> IF "url" \in absent THEN EmptyText ELSE url,
     username |-> IF "username" \in absent THEN <<>> ELSE username,
     password |-> IF "password" \in absent THEN <<>> ELSE password,
     authenticationMethod |->
         IF "authenticationMethod" \in absent THEN STANDARD ELSE authenticationMethod,
     exchangeVersion |-> IF "exchangeVersion" \in absent THEN 0 ELSE exchangeVersion]

Candidates ==
    { candidate(absent, url, username, password, authenticationMethod, exchangeVersion) :
        absent \in SUBSET Fields, url \in UrlTexts, username \in Usernames,
        password \in Passwords, authenticationMethod \in AuthenticationInputs,
        exchangeVersion \in VersionInputs }

-----------------------------------------------------------------------------
(* The add-credential route handler, _postAdd.ts *)

\* A request before getHandler runs: no body, no response (status 0), no
\* connection test.
NoRequestYet ==
    [pc |-> "idle", body |-> candidate(Fields, EmptyText, <<>>, <<>>, STANDARD, 0),
     probe |-> "none", timer |-> "none", testConnection |-> "none",
     reason |-> {}, status |-> 0]

\* data.url.includes("/ews/") || data.url.includes("/EWS/") ||
\* data.url.includes("Exchange.asmx"): lines 27-30, on the path as written
refineUrl(text) ==
    \/ \E i \in 1..(Len(text.path) - 1) : text.path[i] \in {"ews", "EWS"}
    \/ \E i \in DOMAIN text.path : text.path[i] \in {"Exchange.asmx", "Exchange.asmx.old"}

\* emailSchema of @calcom/lib: a string with an "@" in it, at the least
emailSchemaAccepts(username) == \E i \in DOMAIN username : username[i] = "@"

\* formSchema.parse(req.body), lines 16-35 and 39: the body is refused
schemaRefuses(body) ==
    \/ missing(body, "url") \/ ~parseUrl(body.url).ok \/ ~refineUrl(body.url)
    \/ missing(body, "username") \/ ~emailSchemaAccepts(body.username)
    \/ missing(body, "password") \/ Len(body.password) < 1
    \/ ~missing(body, "authenticationMethod") /\ body.authenticationMethod \notin 0..1
    \/ ~missing(body, "exchangeVersion") /\ body.exchangeVersion \notin 0..LastVersion

\* formSchema.parse(req.body): the body with the defaults of lines 21-22
parsed(body) ==
    candidate({}, body.url, body.username, body.password,
              IF missing(body, "authenticationMethod") THEN STANDARD
              ELSE body.authenticationMethod,
              IF missing(body, "exchangeVersion") THEN Exchange2016
              ELSE body.exchangeVersion)

\* The request bodies posted to the handler.
Bodies ==
    { candidate(absent, url, username, << "p" >>, authenticationMethod, exchangeVersion) :
        absent \in SUBSET {"password", "authenticationMethod"},
        url \in { urlText("https", "mail.x.com", << "ews", "Exchange.asmx" >>),
                  urlText("http", "x", << "ews", "a" >>),
                  urlText("https", "x", << "owa" >>) },
        username \in { << "a", "@", "b", ".", "c", "o", "m" >>, << "a", "@", "b" >> },
        authenticationMethod \in {NTLM, 2},
        exchangeVersion \in {Exchange2016} }

\* The markers of the messages the connection test can reject with, among
\* them the errors getExchangeService throws.
ProbeFaults ==
    { {"other"}, {"401"}, {"Authentication failed"}, {"timeout"}, {"ENOTFOUND"},
      {"certificate"}, {"digital envelope"}, {"SoapFault"} }

\* lines 83-137: the status of the response to a failed attempt
errorStatus(markers) ==
    IF "digital envelope" \in markers THEN 500
    ELSE IF markers \cap {"401", "Authentication failed"} # {} THEN 401
    ELSE 500

\* Promise.race, lines 66-71: the first promise to settle decides the outcome
race(testConnection, outcome) ==
    IF testConnection = "pending" THEN outcome ELSE testConnection

\* The handler once an awaited promise has rejected with a message holding
\* `markers`: the catch block of lines 79-138 responds.
failed(h, markers) ==
    [h EXCEPT !.pc = "responded", !.reason = markers, !.status = errorStatus(markers)]

\* A handler that goes on to write whenever the probe has resolved, also
\* after the timer has rejected the connection test.
afterTestLate(h, markers) ==
    IF h.probe = "resolved" /\ h.status # 200 THEN [h EXCEPT !.pc = "creating"]
    ELSE IF h.pc # "testing" THEN h
    ELSE IF h.testConnection = "rejected" THEN failed(h, markers)
    ELSE h

\* The handler once the connection test has an outcome: await testConnection,
\* line 73, then the call of prisma.credential.create or the catch block.
afterTest(h, markers) ==
    IF h.pc # "testing" THEN h
    ELSE IF h.testConnection = "fulfilled" THEN [h EXCEPT !.pc = "creating"]
    ELSE IF h.testConnection = "rejected" THEN failed(h, markers)
    ELSE h

-----------------------------------------------------------------------------
(* Initial states *)

folder(id, parent, class, name) ==
    [id |-> id, parent |-> parent, class |-> class, name |-> name]

appointment(start, end, status) ==
    [start |-> start, end |-> end, status |-> status]

\* A mailbox with a calendar, a shared calendar below it without a display
\* name, and a calendar that was moved to Deleted Items.
Tree0 ==
    << folder(DeletedItems, MsgFolderRoot, "IPF.Note", "Deleted Items"),
       folder("cal", MsgFolderRoot, CalendarClass, "Calendar"),
       folder("team", "cal", CalendarClass, NoName),
       folder("old", DeletedItems, CalendarClass, "Old") >>

folderIds(fs) == {fs[i].id : i \in DOMAIN fs}

Appts0 ==
    [id \in folderIds(Tree0) |->
        CASE id = "cal" -> << appointment(1, 2, Busy), appointment(2, 3, Free) >>
          [] id = "team" -> << appointment(0, 1, Tentative) >>
          [] OTHER -> << >>]

Requests0 ==
    { request(<< >>, 0, 3), request(<< "team", "cal" >>, 0, 3) }

GoodBlob(auth) ==
    [wellFormed |-> TRUE, key |-> "k1", json |-> TRUE, config |-> FullConfig(auth)]

InitAdapter ==
    /\ adapter = "unbuilt"
    /\ ctorError = "none"
    /\ payload = NoPayload
    /\ exchangeService = NoHandle
    /\ constructed = 0
    /\ cleaned = FALSE
    /\ mark = 0
    /\ cleanupError = "none"
    /\ nodeOptions = bootOptions
    /\ remoteCalls = FALSE
    /\ items = [u \in Uids |-> NoItem]
    /\ proc = [p \in Procs |-> Idle]
    /\ validation = <<>>
    /\ handler = NoRequestYet
    /\ credentialStore = 0

\* The adapter of part_000 with working credentials, called concurrently.
Init ==
    /\ impl = "part_000"
    /\ bootOptions = <<>>
    /\ credential \in {GoodBlob(STANDARD), GoodBlob(NTLM)}
    /\ envKey = "k1"
    /\ folders = Tree0
    /\ appointments = Appts0
    /\ scope = [callers |-> Procs, events |-> {1}, uids |-> {1},
                 requests |-> {request(<< "cal" >>, 0, 3)},
                 faults |-> {NoFault, {"other"}},
                 remote |-> {"ETIMEDOUT"}, handles |-> MaxHandles]
    /\ InitAdapter

\* Either revision, one call at a time, over stored credentials of every kind:
\* undecryptable, not JSON, with a required field missing, complete.
SeqBlobs ==
    { b \in Blobs :
        /\ b.key = "k1" \/ (b.wellFormed /\ b.json /\ b.config = FullConfig(STANDARD))
        /\ ~b.wellFormed => (b.json /\ b.config = FullConfig(STANDARD))
        /\ ~b.json => b.config = FullConfig(STANDARD)
        /\ b.config.authenticationMethod = NTLM => b.config = FullConfig(NTLM)
        /\ Cardinality({f \in {"url", "username", "password"} : ~b.config[f]}) \in {0, 1, 3} }

\* NODE_OPTIONS at the start: unset, some other flag, the legacy provider.
BootOptions == { <<>>, << "--max-old-space-size=4096" >>, << LegacyProvider >> }

InitSeq ==
    /\ impl \in {"part_000", "part_001"}
    /\ credential \in SeqBlobs
    /\ bootOptions \in IF impl = "part_001" /\ credential = GoodBlob(NTLM)
                        THEN BootOptions ELSE { <<>> }
    /\ envKey \in {"", "k1"}
    /\ folders = Tree0
    /\ appointments = Appts0
    /\ scope \in IF bootOptions = <<>>
                 THEN { [callers |-> {1}, events |-> {1, 2}, uids |-> Uids,
                         requests |-> Requests0,
                         faults |-> {NoFault, {"other"}, {"401"}},
                         remote |-> RemoteFaults, handles |-> MaxSeqHandles],
                        [callers |-> {1}, events |-> {1}, uids |-> {1},
                         requests |-> {request(<< "cal" >>, 0, 3)},
                         faults |-> LibFaults, remote |-> {"ETIMEDOUT"},
                         handles |-> MaxHandles] }
                 ELSE { [callers |-> {1}, events |-> {1}, uids |-> {1},
                         requests |-> {request(<< "cal" >>, 0, 3)},
                         faults |-> {NoFault, {"other"}}, remote |-> {"ETIMEDOUT"},
                         handles |-> MaxHandles] }
    /\ InitAdapter

\* Mailboxes that differ in where each folder hangs: the calendar in place or
\* in Deleted Items, as a calendar or a mail folder; the shared calendar at the
\* root, below the calendar or in Deleted Items, with or without a display
\* name; the old calendar in Deleted Items, below the shared calendar, or in a
\* store that is not below the message folder root.
Trees ==
    { << folder(DeletedItems, MsgFolderRoot, "IPF.Note", "Deleted Items"),
         folder("cal", p1, c1, "Calendar"),
         folder("team", p2, CalendarClass, n2),
         folder("old", p3, CalendarClass, "Old") >> :
        p1 \in {MsgFolderRoot, DeletedItems}, c1 \in {CalendarClass, "IPF.Note"},
        p2 \in {MsgFolderRoot, "cal", DeletedItems}, n2 \in {NoName, "Team"},
        p3 \in {DeletedItems, "team", "archive"} }

Appts1 ==
    [id \in folderIds(Tree0) |->
        CASE id = "cal" -> << appointment(0, 1, Free), appointment(1, 3, OOF) >>
          [] id = "team" -> << appointment(1, 2, Free), appointment(1, 2, Busy) >>
          [] id = "old" -> << appointment(2, 3, Tentative), appointment(0, 2, Free) >>
          [] OTHER -> << >>]

DataRequests ==
    { request(sel, w[1], w[2]) :
        sel \in { << >>, << "cal" >>, << "old", "team" >>,
                  << "team", "cal", "team", "gone" >> },
        w \in { <<0, 3>>, <<1, 2>> } }

\* The adapter of part_000, one call at a time, over mailboxes of every shape.
InitData ==
    /\ impl = "part_000"
    /\ bootOptions = <<>>
    /\ \/ credential = GoodBlob(STANDARD) /\ folders \in Trees
       \/ credential = GoodBlob(NTLM) /\ folders = Tree0
    /\ envKey = "k1"
    /\ appointments \in {Appts0, Appts1}
    /\ scope = [callers |-> {1}, events |-> {1}, uids |-> {1},
                 requests |-> DataRequests,
                 faults |-> {NoFault, {"other"}},
                 remote |-> {"ETIMEDOUT"}, handles |-> MaxHandles]
    /\ InitAdapter

\* part_000, events with attendees and a team, one item
InitItems ==
    /\ impl = "part_000"
    /\ bootOptions = <<>>
    /\ credential \in {GoodBlob(STANDARD), GoodBlob(NTLM)}
    /\ folders = Tree0
    /\ envKey = "k1"
    /\ appointments = Appts0
    /\ scope = [callers |-> {1}, events |-> {3, 4}, uids |-> {1},
                 requests |-> {request(<<"cal">>, 0, 3)},
                 faults |-> {NoFault, {"other"}},
                 remote |-> {"ETIMEDOUT"}, handles |-> MaxHandles]
    /\ InitAdapter

\* part_000 on a mailbox that starts as Tree0
InitFolders ==
    /\ impl = "part_000"
    /\ bootOptions = <<>>
    /\ credential \in {GoodBlob(STANDARD), GoodBlob(NTLM)}
    /\ folders = Tree0
    /\ envKey = "k1"
    /\ appointments = Appts0
    /\ scope = [callers |-> {1}, events |-> {1}, uids |-> {1},
                 requests |-> {request(<<"cal">>, 0, 3)},
                 faults |-> {NoFault, {"other"}},
                 remote |-> {"ETIMEDOUT"}, handles |-> MaxHandles]
    /\ InitAdapter

-----------------------------------------------------------------------------
(* Actions *)

\* new ExchangeCalendarService(credential)
construct ==
    /\ adapter = "unbuilt"
    /\ IF parseThrows(credential, envKey)
       THEN /\ adapter' = "failed"
            /\ ctorError' = constructorError(impl)
            /\ payload' = payload
       ELSE /\ adapter' = "live"
            /\ ctorError' = ctorError
            /\ payload' = credential.config
    /\ UNCHANGED <<world, exchangeService, constructed, cleaned, mark, cleanupError,
                   nodeOptions, remoteVars, proc>>

createEvent(p) ==
    /\ canStart(p)
    /\ Cardinality(freeUids) > Cardinality(savesInFlight)
    /\ \E e \in scope.events : begin(p, "createEvent", [Idle EXCEPT !.ev = e])

updateEvent(p) ==
    /\ canStart(p)
    /\ \E u \in scope.uids, e \in scope.events :
          /\ Len(items[u].attendees) + Len(attendeesThenTeam(e)) <= MaxAttendees
          /\ begin(p, "updateEvent",
                [Idle EXCEPT !.uid = u, !.ev = e, !.whereAtStart = items[u].where])

deleteEvent(p) ==
    /\ canStart(p)
    /\ \E u \in scope.uids :
          begin(p, "deleteEvent",
                [Idle EXCEPT !.uid = u, !.whereAtStart = items[u].where])

listCalendars(p) ==
    /\ canStart(p)
    /\ begin(p, "listCalendars", Idle)

getAvailability(p) ==
    /\ canStart(p)
    /\ \E r \in scope.requests : begin(p, "getAvailability", [Idle EXCEPT !.req = r])

\* import("@ewsjs/xhr") and useNtlmAuthentication succeed: the handle is stored
\* (part_000 line 260) and returned.
importResolved(p) ==
    /\ proc[p].pc = "import"
    /\ proc' = [proc EXCEPT ![p].svc = proc[p].pending,
                            ![p].pending = NoHandle,
                            ![p].pc = firstCall(proc[p].op)]
    /\ exchangeService' = IF impl = "part_000" THEN proc[p].pending ELSE exchangeService
    /\ remoteCalls' = TRUE
    /\ UNCHANGED <<world, adapter, ctorError, payload, constructed, cleaned, mark,
                   cleanupError, nodeOptions, items>>

\* They fail: part_000 throws the classified error, part_001 logs and goes on
\* with the handle as built (lines 224-228).
importFailed(p) ==
    /\ proc[p].pc = "import"
    /\ \E m \in scope.faults \ {NoFault} :
          IF impl = "part_000"
          THEN /\ proc' = [proc EXCEPT ![p] =
                              settled([proc[p] EXCEPT !.caught = ntlmSetupThrown(m),
                                                      !.ntlmError = m],
                                      outerCatch000(ntlmSetupThrown(m)))]
               /\ UNCHANGED remoteCalls
          ELSE /\ proc' = [proc EXCEPT ![p].svc = proc[p].pending,
                                       ![p].pending = NoHandle,
                                       ![p].ntlmError = m,
                                       ![p].pc = firstCall(proc[p].op)]
               /\ remoteCalls' = TRUE
    /\ UNCHANGED <<world, adapterVars, items>>

RemotePcs == {"save", "bind", "update", "delete", "bindDeleted", "findFolders"}

\* The remote call in flight fails: .catch logs and throws the reason again.
remoteFault(p) ==
    /\ proc[p].pc \in RemotePcs
    /\ \E reason \in scope.remote :
          proc' = [proc EXCEPT ![p] =
                      settled([proc[p] EXCEPT !.raised = reason], rethrow(reason))]
    /\ UNCHANGED <<world, adapterVars, remoteVars>>

\* appointment.Save(SendToAllAndSaveCopy) resolves: lines 80-89
saveDone(p) ==
    /\ proc[p].pc = "save"
    /\ freeUids # {}
    /\ LET u == Min(freeUids)
       IN  /\ items' = [items EXCEPT ![u] = [assignFields(NoItem, proc[p].ev)
                                                 EXCEPT !.where = "calendar"]]
           /\ proc' = [proc EXCEPT ![p] = settled([proc[p] EXCEPT !.itemId = u], "ok")]
    /\ UNCHANGED <<world, adapterVars, remoteCalls>>

\* Appointment.Bind(service, new ItemId(uid)) settles: lines 100 and 136
bindDone(p) ==
    /\ proc[p].pc = "bind"
    /\ LET u == bindTarget(proc[p].uid)
       IN  IF items[u].where = "calendar"
           THEN proc' = [proc EXCEPT ![p].itemId = u,
                                     ![p].bound = items[u],
                                     ![p].pc = IF proc[p].op = "updateEvent"
                                               THEN "update" ELSE "delete"]
           ELSE proc' = [proc EXCEPT ![p] =
                           settled([proc[p] EXCEPT !.raised = "NotFoundError"],
                                   "NotFoundError")]
    /\ UNCHANGED <<world, adapterVars, remoteVars>>

\* appointment.Update(AlwaysOverwrite, SendToChangedAndSaveCopy) settles
updateDone(p) ==
    /\ proc[p].pc = "update"
    /\ LET u == proc[p].itemId
       IN  IF items[u].where = "calendar"
           THEN /\ items' = [items EXCEPT ![u] = assignFields(proc[p].bound, proc[p].ev)]
                /\ proc' = [proc EXCEPT ![p] = settled(proc[p], "ok")]
           ELSE /\ items' = items
                /\ proc' = [proc EXCEPT ![p] =
                               settled([proc[p] EXCEPT !.raised = "NotFoundError"],
                                       rethrow("NotFoundError"))]
    /\ UNCHANGED <<world, adapterVars, remoteCalls>>

\* appointment.Delete(MoveToDeletedItems) settles
deleteDone(p) ==
    /\ proc[p].pc = "delete"
    /\ LET u == proc[p].itemId
       IN  IF items[u].where = "calendar"
           THEN /\ items' = [items EXCEPT ![u].where = afterDelete(deleteMode)]
                /\ proc' = [proc EXCEPT ![p] = settled(proc[p], "ok")]
           ELSE /\ items' = items
                /\ proc' = [proc EXCEPT ![p] =
                               settled([proc[p] EXCEPT !.raised = "NotFoundError"],
                                       rethrow("NotFoundError"))]
    /\ UNCHANGED <<world, adapterVars, remoteCalls>>

\* Folder.Bind(service, WellKnownFolderName.DeletedItems) resolves: line 183
bindDeletedDone(p) ==
    /\ proc[p].pc = "bindDeleted"
    /\ proc' = [proc EXCEPT ![p].deletedItemsFolder = DeletedItems,
                            ![p].pc = "findFolders"]
    /\ UNCHANGED <<world, adapterVars, remoteVars>>

\* FindFolders resolves.  listCalendars returns its list; getAvailability goes
\* on, without interruption, to start one query per selected calendar.
findFoldersDone(p) ==
    /\ proc[p].pc = "findFolders"
    /\ LET calendars == listCalendarsResult(folders, proc[p].deletedItemsFolder)
       IN  IF proc[p].op = "listCalendars"
           THEN /\ proc' = [proc EXCEPT ![p] =
                               settled([proc[p] EXCEPT !.retList = calendars], "ok")]
                /\ UNCHANGED <<exchangeService, constructed, nodeOptions>>
           ELSE LET chosen == selectedOf(calendars, proc[p].req.sel)
                IN  \E faults \in [DOMAIN chosen -> scope.faults] :
                       LET f == fanOut(chosen, faults, exchangeService, constructed,
                                       nodeOptions)
                           bad == failedQueries(f.queries)
                           slot == [proc[p] EXCEPT !.queries = f.queries, !.pc = "join",
                                      !.firstFailed = IF bad = {} THEN 0 ELSE Min(bad)]
                       IN  /\ f.count <= scope.handles
                           /\ exchangeService' = f.cache
                           /\ constructed' = f.count
                           /\ nodeOptions' = f.env
                           /\ proc' = [proc EXCEPT ![p] =
                                  IF chosen = <<>> THEN settled(slot, "ok")
                                  ELSE IF bad # {} THEN joined(slot, Min(bad))
                                  ELSE slot]
    /\ UNCHANGED <<world, adapter, ctorError, payload, cleaned, mark, cleanupError, remoteVars>>

\* The NTLM transport of query i is ready: the handle is stored and returned,
\* and FindAppointments is sent.
queryImportResolved(p, i) ==
    /\ i \in DOMAIN proc[p].queries
    /\ proc[p].queries[i].st = "import"
    /\ proc' = [proc EXCEPT ![p].queries[i].st = "find",
                            ![p].queries[i].svc = proc[p].queries[i].pending,
                            ![p].queries[i].pending = NoHandle]
    /\ exchangeService' = IF impl = "part_000"
                          THEN proc[p].queries[i].pending ELSE exchangeService
    /\ UNCHANGED <<world, adapter, ctorError, payload, constructed, cleaned, mark,
                   cleanupError, nodeOptions, remoteVars>>

queryImportFailed(p, i) ==
    /\ i \in DOMAIN proc[p].queries
    /\ proc[p].queries[i].st = "import"
    /\ \E m \in scope.faults \ {NoFault} :
          LET q == proc[p].queries[i]
          IN  IF impl = "part_000"
              THEN proc' = [proc EXCEPT ![p] =
                        joined([proc[p] EXCEPT
                                   !.queries[i] =
                                       [q EXCEPT !.st = "failed", !.pending = NoHandle,
                                                 !.err = outerCatch000(ntlmSetupThrown(m))],
                                   !.firstFailed = firstFailure(proc[p], i)], i)]
              ELSE proc' = [proc EXCEPT ![p].queries[i] =
                                   [q EXCEPT !.st = "find", !.svc = q.pending,
                                             !.pending = NoHandle]]
    /\ UNCHANGED <<world, adapterVars, remoteVars>>

\* FindAppointments of query i resolves: lines 157-166, then the join
findAppointmentsDone(p, i) ==
    /\ i \in DOMAIN proc[p].queries
    /\ proc[p].queries[i].st = "find"
    /\ LET q == proc[p].queries[i]
           found == findAppointments(q.cal, proc[p].req.from, proc[p].req.to)
       IN  proc' = [proc EXCEPT ![p] =
                       joined([proc[p] EXCEPT
                                  !.queries[i] =
                                      [q EXCEPT !.st = "ok", !.busy = busyDates(found)],
                                  !.answered = IF proc[p].pc = "done" THEN proc[p].answered
                                               ELSE Append(proc[p].answered, i)], i)]
    /\ UNCHANGED <<world, adapterVars, remoteVars>>

\* FindAppointments of query i fails: lines 167-170, then the join
findAppointmentsFailed(p, i) ==
    /\ i \in DOMAIN proc[p].queries
    /\ proc[p].queries[i].st = "find"
    /\ \E reason \in scope.remote :
          proc' = [proc EXCEPT ![p] =
                      joined([proc[p] EXCEPT
                                 !.queries[i].st = "failed",
                                 !.queries[i].err = rethrow(reason),
                                 !.firstFailed = firstFailure(proc[p], i),
                                 !.raised = IF proc[p].firstFailed = 0 THEN reason
                                            ELSE proc[p].raised], i)]
    /\ UNCHANGED <<world, adapterVars, remoteVars>>

\* cleanup() lines 317-319: what leaves the catch block when the try block
\* threw `thrown` (log.debug failing) or nothing: the error is logged, not thrown.
swallowed(thrown) == "none"

\* cleanup(): part_000 lines 311-321; part_001 has no such method
cleanup ==
    /\ adapter = "live"
    /\ impl = "part_000"
    /\ exchangeService' = IF exchangeService # NoHandle THEN NoHandle ELSE exchangeService
    /\ cleaned' = TRUE
    /\ mark' = constructed
    /\ IF exchangeService # NoHandle
       THEN \E thrown \in {"none", "LogError"} : cleanupError' = swallowed(thrown)
       ELSE cleanupError' = "none"
    /\ UNCHANGED <<world, adapter, ctorError, payload, constructed, nodeOptions,
                   remoteVars, proc>>

\* The host has taken the outcome of a settled operation none of whose
\* requests is still in flight; the slot is free for the next call.
returned(p) ==
    /\ proc[p].pc = "done"
    /\ inFlight(proc[p].queries) = {}
    /\ proc' = [proc EXCEPT ![p] = Idle]
    /\ UNCHANGED <<world, adapterVars, remoteVars>>

Queries == 1..MaxQueries

Next ==
    \/ construct
    \/ cleanup
    \/ \E p \in Procs :
          \/ createEvent(p)
          \/ updateEvent(p)
          \/ deleteEvent(p)
          \/ listCalendars(p)
          \/ getAvailability(p)
          \/ importResolved(p)
          \/ importFailed(p)
          \/ remoteFault(p)
          \/ saveDone(p)
          \/ bindDone(p)
          \/ updateDone(p)
          \/ deleteDone(p)
          \/ bindDeletedDone(p)
          \/ findFoldersDone(p)
          \/ returned(p)
          \/ \E i \in Queries :
                \/ queryImportResolved(p, i)
                \/ queryImportFailed(p, i)
                \/ findAppointmentsDone(p, i)
                \/ findAppointmentsFailed(p, i)

Spec == Init /\ [][Next]_vars

SpecSeq == InitSeq /\ [][Next]_vars

SpecData == InitData /\ [][Next]_vars

\* The mailbox owner moves, renames or reclassifies folders between and
\* during the adapter's calls.
foldersChanged ==
    /\ folders' \in Trees \ {folders}
    /\ UNCHANGED <<impl, credential, envKey, appointments, scope, validation,
                   handler, credentialStore, bootOptions, adapterVars, remoteVars, proc>>

NextFolders ==
    \/ construct
    \/ foldersChanged
    \/ \E p \in Procs :
          \/ listCalendars(p)
          \/ importResolved(p)
          \/ importFailed(p)
          \/ remoteFault(p)
          \/ bindDeletedDone(p)
          \/ findFoldersDone(p)
          \/ returned(p)

\* listCalendars and cleanup() alone: the calls of getExchangeService of
\* several callers interleave.
NextHandles ==
    \/ construct
    \/ cleanup
    \/ \E p \in Procs :
          \/ listCalendars(p)
          \/ importResolved(p)
          \/ importFailed(p)
          \/ remoteFault(p)
          \/ bindDeletedDone(p)
          \/ findFoldersDone(p)
          \/ returned(p)

\* Concurrent callers of part_000 acquiring the handle
SpecHandles == Init /\ [][NextHandles]_vars

\* listCalendars called again and again on a mailbox whose folders change
SpecFolders == InitFolders /\ [][NextFolders]_vars

\* One caller at a time creating and updating events that have attendees
SpecItems == InitItems /\ [][Next]_vars

\* ExchangeConfigValidator.validate(config), called by a form or a handler
callValidate ==
    /\ validation = <<>>
    /\ \E config \in Candidates :
          validation' = << [config |-> config, result |-> validate(config)] >>
    /\ UNCHANGED <<impl, credential, envKey, folders, appointments, scope,
                   handler, credentialStore, bootOptions, adapterVars, remoteVars, proc>>

NextValidator == callValidate

\* The configs getSuggestions is called with: every version number from
\* below the enum to above it.
SuggestionCandidates ==
    { candidate(absent, url, << "a", "@", "b", ".", "c" >>, << "p" >>,
                authenticationMethod, exchangeVersion) :
        absent \in SUBSET Fields, url \in UrlTexts,
        authenticationMethod \in AuthenticationInputs,
        exchangeVersion \in (-1)..(LastVersion + 1) }

callGetSuggestions ==
    /\ validation = <<>>
    /\ \E config \in SuggestionCandidates :
          validation' = << [config |-> config, result |-> getSuggestions(config)] >>
    /\ UNCHANGED <<impl, credential, envKey, folders, appointments, scope,
                   handler, credentialStore, bootOptions, adapterVars, remoteVars, proc>>

NextSuggestions == callGetSuggestions

\* getHandler from its entry to `await testConnection`: lines 38-73.  The
\* parse, the encryption or the constructor may throw.
getHandler ==
    /\ handler.pc = "idle"
    /\ \E body \in Bodies, thrown \in {"none", "encrypt", "constructor"} :
          LET h == [handler EXCEPT !.body = body]
          IN  handler' =
                 IF schemaRefuses(body)
                 THEN [h EXCEPT !.pc = "responded", !.status = 400]
                 ELSE IF ~validate(parsed(body)).isValid
                 THEN [h EXCEPT !.body = parsed(body), !.pc = "responded", !.status = 400]
                 ELSE IF thrown = "encrypt"
                 THEN [h EXCEPT !.body = parsed(body), !.pc = "responded", !.status = 500]
                 ELSE IF thrown = "constructor"
                 THEN failed([h EXCEPT !.body = parsed(body)], {"other"})
                 ELSE [h EXCEPT !.body = parsed(body), !.pc = "testing",
                                !.probe = "pending", !.timer = "armed",
                                !.testConnection = "pending"]
    /\ UNCHANGED <<impl, credential, envKey, folders, appointments, scope, validation,
                   credentialStore, bootOptions, adapterVars, remoteVars, proc>>

\* service.listCalendars() resolves
probeResolved ==
    /\ handler.probe = "pending"
    /\ handler' = afterTest([handler EXCEPT
                                !.probe = "resolved",
                                !.testConnection = race(handler.testConnection, "fulfilled")],
                            {})
    /\ UNCHANGED <<impl, credential, envKey, folders, appointments, scope, validation,
                   credentialStore, bootOptions, adapterVars, remoteVars, proc>>

\* service.listCalendars() rejects
probeRejected ==
    /\ handler.probe = "pending"
    /\ \E markers \in ProbeFaults :
          handler' = afterTest([handler EXCEPT
                                   !.probe = "rejected",
                                   !.testConnection = race(handler.testConnection, "rejected")],
                               markers)
    /\ UNCHANGED <<impl, credential, envKey, folders, appointments, scope, validation,
                   credentialStore, bootOptions, adapterVars, remoteVars, proc>>

\* The timer of line 69 fires after 30 seconds: it is never cleared
timeoutFired ==
    /\ handler.timer = "armed"
    /\ handler' = afterTest([handler EXCEPT
                                !.timer = "fired",
                                !.testConnection = race(handler.testConnection, "rejected")],
                            {"timeout"})
    /\ UNCHANGED <<impl, credential, envKey, folders, appointments, scope, validation,
                   credentialStore, bootOptions, adapterVars, remoteVars, proc>>

\* prisma.credential.create resolves: lines 76-78, then the response of line 140
createResolved ==
    /\ handler.pc = "creating"
    /\ credentialStore' = credentialStore + 1
    /\ handler' = [handler EXCEPT !.pc = "responded", !.status = 200]
    /\ UNCHANGED <<impl, credential, envKey, folders, appointments, scope, validation,
                   bootOptions, adapterVars, remoteVars, proc>>

\* prisma.credential.create rejects: nothing is written, the catch block responds
createRejected ==
    /\ handler.pc = "creating"
    /\ handler' = failed(handler, {"other"})
    /\ UNCHANGED <<impl, credential, envKey, folders, appointments, scope, validation,
                   credentialStore, bootOptions, adapterVars, remoteVars, proc>>

NextHandler ==
    \/ getHandler
    \/ probeResolved
    \/ probeRejected
    \/ timeoutFired
    \/ createResolved
    \/ createRejected

\* One request to the add-credential route.
SpecHandler == Init /\ [][NextHandler]_vars

\* The validator alone: it keeps no state and calls nothing.
SpecValidator == Init /\ [][NextValidator]_vars

\* getSuggestions alone
SpecSuggestions == Init /\ [][NextSuggestions]_vars

-----------------------------------------------------------------------------
(* Claims *)

\* The handles a slot is sending requests through.
handlesUsed(p) ==
    ({proc[p].svc} \cup {proc[p].queries[i].svc : i \in DOMAIN proc[p].queries})
        \ {NoHandle}

TransportErrors == AcquisitionErrors \cup RemoteFaults

\* C1: with no cleanup() so far, the client handle has been constructed at most
\* once and all operations in progress hold the same handle, whatever the
\* authentication method and however the operations interleave.
C1_ConstructedAtMostOnce ==
    ~cleaned =>
        /\ constructed <= 1
        /\ \A p, q \in Procs : \A h \in handlesUsed(p), g \in handlesUsed(q) : h = g

\* C2: once cleanup() has returned the cache stays absent until a handle is
\* constructed, and an operation started after a cleanup() never sends a
\* request through a handle constructed before that cleanup().
C2_FreshHandleAfterCleanup ==
    /\ (cleaned /\ constructed = mark) => exchangeService = NoHandle
    /\ \A p \in Procs : \A h \in handlesUsed(p) : h > proc[p].startMark

\* C3: when decrypting or parsing the credential fails, construction fails
\* with the "Invalid or corrupted Exchange credentials" error, no adapter
\* exists and no handle was constructed or cached.
C3_CredentialError ==
    (adapter # "unbuilt" /\ parseThrows(credential, envKey)) =>
        /\ adapter = "failed"
        /\ ctorError = "CredentialError"
        /\ exchangeService = NoHandle
        /\ constructed = 0
        /\ \A p \in Procs : proc[p] = Idle

\* C4: with url, username or password missing, every operation fails with the
\* "Missing required Exchange configuration parameters" error, no request is
\* ever sent to the server and no handle is constructed or cached.
C4_ConfigError ==
    (adapter = "live" /\ missingRequired(payload)) =>
        /\ ~remoteCalls
        /\ exchangeService = NoHandle
        /\ constructed = 0
        /\ \A p \in Procs :
              /\ proc[p].pc \in {"idle", "done"}
              /\ proc[p].pc = "done" => proc[p].result = "ConfigError"

\* C5: an updateEvent or deleteEvent on a uid that a createEvent returned and
\* that was not deleted finds the item (it succeeds with uid = id = the uid
\* passed, and deleteEvent moves the item out of the calendar, unless the
\* handle or the transport fails); on a uid already deleted it sends no
\* Update or Delete for any item and fails, with NotFoundError once the server
\* answered.
C5_RoundTrip ==
    \A p \in Procs :
        LET s == proc[p]
        IN  s.op \in {"updateEvent", "deleteEvent"} =>
              /\ s.whereAtStart = "deleteditems" =>
                    /\ s.pc \notin {"update", "delete"}
                    /\ s.pc = "done" =>
                          s.result \in {"NotFoundError"} \cup TransportErrors
              /\ (s.whereAtStart = "calendar" /\ s.pc = "done") =>
                    /\ s.result \in {"ok"} \cup TransportErrors
                    /\ s.result = "ok" =>
                          /\ s.itemId = s.uid
                          /\ s.op = "deleteEvent" => items[s.uid].where = "deleteditems"
                          /\ s.op = "updateEvent" => items[s.uid].where = "calendar"

\* An updateEvent on a uid that was created and then deleted has failed with
\* NotFoundError.
C5_Witness ==
    \E p \in Procs :
        /\ proc[p].op = "updateEvent"
        /\ proc[p].pc = "done"
        /\ proc[p].whereAtStart = "deleteditems"
        /\ proc[p].result = "NotFoundError"

\* The folders of the mailbox with the given id.
foldersWithId(id) == {j \in DOMAIN folders : folders[j].id = id}

\* A slot whose call of the given operation has returned a value.
returnedOk(p, op) ==
    proc[p].op = op /\ proc[p].pc = "done" /\ proc[p].result = "ok"

\* C6: whatever the folder tree, no calendar that listCalendars returns -- to
\* the host, or to getAvailability for its queries -- is a folder whose parent
\* is the Deleted Items folder the call looked up.
C6_NoDeletedItemsChildren ==
    \A p \in Procs :
        /\ returnedOk(p, "listCalendars") =>
              \A i \in DOMAIN proc[p].retList :
                 \A j \in foldersWithId(proc[p].retList[i].externalId) :
                    folders[j].parent # DeletedItems
        /\ proc[p].op = "getAvailability" =>
              \A i \in DOMAIN proc[p].queries :
                 \A j \in foldersWithId(proc[p].queries[i].cal) :
                    folders[j].parent # DeletedItems

\* listCalendars has returned calendars from a mailbox in which the search
\* finds a calendar folder lying directly in Deleted Items.
C6_Witness ==
    \E p \in Procs :
        /\ returnedOk(p, "listCalendars")
        /\ proc[p].retList # <<>>
        /\ \E j \in DOMAIN findFolders(folders) :
              findFolders(folders)[j].parent = DeletedItems

\* The calendars getAvailability queries for a request: those listCalendars
\* returns whose id is among the selected ones.
queried(req) ==
    LET listed == listCalendarsResult(folders, DeletedItems)
    IN  {listed[i].externalId : i \in DOMAIN listed} \cap
        {req.sel[j] : j \in DOMAIN req.sel}

interval(a) == [start |-> a.start, end |-> a.end]

\* The appointment lies within the requested range.
within(a, req) == req.from <= a.start /\ a.end <= req.to

\* C7: when getAvailability succeeds, every interval of the output is the
\* {start, end} of an appointment of a queried calendar whose status is not
\* Free, and every appointment of a queried calendar that lies within [dateFrom, dateTo]
\* and is not Free has its {start, end} in the output.
C7_BusyIntervals ==
    \A p \in Procs :
        returnedOk(p, "getAvailability") =>
           LET req == proc[p].req
               out == proc[p].retList
               busyOf(c) == {j \in DOMAIN appointments[c] : appointments[c][j].status # Free}
           IN  /\ \A i \in DOMAIN out :
                     \E c \in queried(req) : \E j \in busyOf(c) :
                        out[i] = interval(appointments[c][j])
               /\ \A c \in queried(req) : \A j \in busyOf(c) :
                     within(appointments[c][j], req) =>
                        \E i \in DOMAIN out : out[i] = interval(appointments[c][j])

\* getAvailability has returned busy intervals for a calendar that also holds
\* a Free appointment within the requested range.
C7_Witness ==
    \E p \in Procs :
        /\ returnedOk(p, "getAvailability")
        /\ proc[p].retList # <<>>
        /\ \E c \in queried(proc[p].req) : \E j, k \in DOMAIN appointments[c] :
              /\ appointments[c][j].status = Free
              /\ within(appointments[c][j], proc[p].req)
              /\ appointments[c][k].status # Free
              /\ within(appointments[c][k], proc[p].req)

\* C8: a getAvailability call with no selected calendar never has a
\* find-appointments query, and the list it returns is empty.
C8_EmptySelection ==
    \A p \in Procs :
        (proc[p].op = "getAvailability" /\ proc[p].req.sel = <<>>) =>
           /\ proc[p].queries = <<>>
           /\ proc[p].pc # "join"
           /\ returnedOk(p, "getAvailability") => proc[p].retList = <<>>

\* getAvailability has returned for an empty selection although the mailbox
\* lists a calendar with a busy appointment within the requested range.
C8_Witness ==
    \E p \in Procs :
        /\ returnedOk(p, "getAvailability")
        /\ proc[p].req.sel = <<>>
        /\ LET listed == listCalendarsResult(folders, DeletedItems)
           IN  \E i \in DOMAIN listed :
                  \E j \in DOMAIN appointments[listed[i].externalId] :
                     LET a == appointments[listed[i].externalId][j]
                     IN  a.status # Free /\ within(a, proc[p].req)

\* C9: in getAvailability, once a per-calendar query has failed the call has
\* failed with the error of the query that failed first, unchanged, and with
\* no result, whatever its siblings do afterwards; the call returns a list
\* only when every query succeeded.
C9_AllOrNothing ==
    \A p \in Procs :
        proc[p].op = "getAvailability" =>
           LET qs == proc[p].queries
               bad == failedQueries(qs)
           IN  /\ bad # {} =>
                     /\ proc[p].pc = "done"
                     /\ proc[p].firstFailed \in bad
                     /\ proc[p].result = qs[proc[p].firstFailed].err
                     /\ proc[p].result # "ok"
                     /\ proc[p].retList = <<>>
               /\ returnedOk(p, "getAvailability") =>
                     \A i \in DOMAIN qs : qs[i].st = "ok"
               /\ (proc[p].pc = "done" /\ proc[p].result # "ok") => proc[p].retList = <<>>

\* getAvailability has failed with the error of a find-appointments query
\* while a sibling query ran to its end and found busy appointments.
C9_Witness ==
    \E p \in Procs :
        /\ proc[p].op = "getAvailability"
        /\ proc[p].pc = "done"
        /\ proc[p].result \in RemoteFaults
        /\ proc[p].retList = <<>>
        /\ \E i \in DOMAIN proc[p].queries : proc[p].queries[i].st = "ok"

\* A config that passes every rule.
ValidConfig ==
    candidate({}, urlText("https", "mail.x.com", << "ews", "Exchange.asmx" >>),
              << "a", "@", "b", ".", "c" >>, << "p" >>, STANDARD, Exchange2016)

\* The config that has field f as config has it and passes every other rule.
isolate(config, f) ==
    [ValidConfig EXCEPT ![f] = config[f], !.absent = config.absent \cap {f}]

elements(seq) == {seq[i] : i \in DOMAIN seq}

\* C10: validate reports, in one call, exactly one error for each field that
\* breaks its rule -- the error the field gets when every other field is
\* fine -- whatever the other fields hold; a config whose url, username and
\* password are all empty or absent gets the three "required" errors; and
\* isValid is true exactly when the error list is empty.
C10_AllErrorsCollected ==
    \A n \in DOMAIN validation :
        LET config == validation[n].config
            result == validation[n].result
            alone(f) == validate(isolate(config, f)).errors
        IN  /\ result.isValid <=> result.errors = <<>>
            /\ elements(result.errors) = UNION {elements(alone(f)) : f \in Fields}
            /\ Len(result.errors) = Cardinality({f \in Fields : alone(f) # <<>>})
            /\ Cardinality(elements(result.errors)) = Len(result.errors)
            /\ (\A f \in {"url", "username", "password"} : falsy(config, f)) =>
                  {"Exchange URL is required", "Username is required",
                   "Password is required"} \subseteq elements(result.errors)

\* validate has returned four errors for a config with an empty url, an empty
\* username, no password and an authentication method outside the enum.
C10_Witness ==
    \E n \in DOMAIN validation :
        LET config == validation[n].config
        IN  /\ ~missing(config, "url") /\ config.url = EmptyText
            /\ ~missing(config, "username") /\ config.username = <<>>
            /\ missing(config, "password")
            /\ ~missing(config, "authenticationMethod")
            /\ config.authenticationMethod \notin AuthenticationValues
            /\ Len(validation[n].result.errors) = 4
            /\ ~validation[n].result.isValid

UrlErrors ==
    {"Exchange URL is required", "URL must be a valid Exchange Web Services (EWS) endpoint"}

\* The text is an absolute URL: it has a scheme and a host.
absolute(text) == text.scheme # "" /\ text.host # ""

\* The path of the text contains /ews/, /exchange.asmx or
\* /microsoft-server-activesync, upper and lower case taken as the same.
hasEwsMarker(text) ==
    \E i \in DOMAIN text.path :
        LET word == toLowerCase(text.path[i])
        IN  \/ word = "ews" /\ i < Len(text.path)
            \/ startsWith(word, "exchange.asmx")
            \/ startsWith(word, "microsoft-server-activesync")

\* {url: "http://x/ews/a", username: "a@b.com", password: "p"}
HttpExample ==
    candidate({"authenticationMethod", "exchangeVersion"},
              urlText("http", "x", << "ews", "a" >>),
              << "a", "@", "b", ".", "c", "o", "m" >>, << "p" >>, STANDARD, 0)

\* {url: "https://mail.x.com/ews/Exchange.asmx", username: "a@b.com",
\*  password: "p", authenticationMethod: 0, exchangeVersion: 7}
HttpsExample ==
    candidate({}, urlText("https", "mail.x.com", << "ews", "Exchange.asmx" >>),
              << "a", "@", "b", ".", "c", "o", "m" >>, << "p" >>, STANDARD, Exchange2016)

\* C11: validate reports an error about the url exactly when the url is absent,
\* is not an absolute URL, has a scheme other than https, or has a path with
\* none of the three EWS markers, case ignored; http://x/ews/a is invalid and
\* the https example config is valid with no error.
C11_UrlRule ==
    \A n \in DOMAIN validation :
        LET config == validation[n].config
            result == validation[n].result
        IN  /\ (elements(result.errors) \cap UrlErrors # {}) <=>
                  \/ missing(config, "url")
                  \/ ~absolute(config.url)
                  \/ toLowerCase(config.url.scheme) # "https"
                  \/ ~hasEwsMarker(config.url)
            /\ config = HttpExample => ~result.isValid
            /\ config = HttpsExample => result.isValid /\ result.errors = <<>>

\* validate has rejected the http example for its url alone.
C11_Witness ==
    \E n \in DOMAIN validation :
        /\ validation[n].config = HttpExample
        /\ elements(validation[n].result.errors) \subseteq UrlErrors
        /\ ~validation[n].result.isValid

\* The config has a url, a username and a password, none of them empty.
requiredPresent(config) ==
    /\ ~missing(config, "url") /\ config.url # EmptyText
    /\ ~missing(config, "username") /\ config.username # <<>>
    /\ ~missing(config, "password") /\ config.password # <<>>

\* C12 as stated: every config validate accepts has a non-empty url, username
\* and password, and has an authenticationMethod and an exchangeVersion that
\* are values of their enums.
C12_ValidatedInRange ==
    \A n \in DOMAIN validation :
        LET config == validation[n].config
        IN  validation[n].result.isValid =>
               /\ requiredPresent(config)
               /\ ~missing(config, "authenticationMethod")
               /\ config.authenticationMethod \in AuthenticationValues
               /\ ~missing(config, "exchangeVersion")
               /\ config.exchangeVersion \in VersionValues

\* C12, amended: every config validate accepts has a non-empty url, username
\* and password, and each of authenticationMethod and exchangeVersion is
\* either absent from the config or a value of its enum.
C12_ValidatedInRangeIfPresent ==
    \A n \in DOMAIN validation :
        LET config == validation[n].config
        IN  validation[n].result.isValid =>
               /\ requiredPresent(config)
               /\ \/ missing(config, "authenticationMethod")
                  \/ config.authenticationMethod \in AuthenticationValues
               /\ \/ missing(config, "exchangeVersion")
                  \/ config.exchangeVersion \in VersionValues

\* validate has accepted a config that has no authenticationMethod and an
\* exchangeVersion of the enum.
C12_Witness ==
    \E n \in DOMAIN validation :
        /\ validation[n].result.isValid
        /\ missing(validation[n].config, "authenticationMethod")
        /\ ~missing(validation[n].config, "exchangeVersion")

Operations == {"createEvent", "updateEvent", "deleteEvent", "listCalendars", "getAvailability"}

\* C13: when a remote call of one of the five operations has failed, the
\* operation has failed with that very error -- also when its message reads
\* like one the handle acquisition would classify -- and cleanup() never
\* throws to its caller.
C13_ErrorsUnchanged ==
    /\ \A p \in Procs :
          (proc[p].op \in Operations /\ proc[p].raised # "none") =>
             /\ proc[p].pc = "done"
             /\ proc[p].result = proc[p].raised
    /\ cleanupError = "none"

\* After a cleanup(), an operation has failed with the "401 Unauthorized" its
\* remote call was answered with.
C13_Witness ==
    /\ cleaned
    /\ \E p \in Procs :
          /\ proc[p].op \in Operations
          /\ proc[p].pc = "done"
          /\ proc[p].raised = "401 Unauthorized"
          /\ proc[p].result = "401 Unauthorized"

\* The one error class the fixed precedence gives an error caught during
\* handle construction.
precedence(error) ==
    IF error.name \in {"ConfigError", "EnvironmentError", "AuthSetupError"} THEN error.name
    ELSE IF "401" \in error.markers THEN "AuthError"
    ELSE IF error.markers \cap {"timeout", "ENOTFOUND"} # {} THEN "ConnectivityError"
    ELSE IF "certificate" \in error.markers THEN "TlsError"
    ELSE IF "digital envelope" \in error.markers THEN "EnvironmentError"
    ELSE error.name

\* C14: an operation whose handle construction failed has failed with the
\* error class of the fixed precedence: an error of the missing-config or the
\* NTLM-setup check unchanged, whatever markers its message holds, else
\* AuthError, else ConnectivityError, else TlsError, else EnvironmentError,
\* else the original error.
C14_Precedence ==
    \A p \in Procs :
        proc[p].caught # NoError =>
           /\ proc[p].pc = "done"
           /\ proc[p].result = precedence(proc[p].caught)

\* C15: a credential record is written only when validate accepted the body
\* and the connection test was fulfilled by the probe, which then resolved
\* before the timer fired; the 200 response is given only after the write;
\* when the body is invalid, the probe fails or the timer fires first -- also
\* when the probe resolves afterwards -- nothing is written and the response
\* is not 200.
C15_WriteAfterProbe ==
    /\ credentialStore <= 1
    /\ credentialStore = 1 =>
          /\ validate(handler.body).isValid
          /\ handler.probe = "resolved"
          /\ handler.testConnection = "fulfilled"
          /\ handler.status = 200
    /\ handler.status = 200 => credentialStore = 1
    /\ handler.pc = "creating" =>
          /\ validate(handler.body).isValid
          /\ handler.testConnection = "fulfilled"
    /\ (handler.pc = "responded" /\ handler.testConnection # "fulfilled") =>
          credentialStore = 0 /\ handler.status \in {400, 401, 500}

\* The timer fired first and the handler answered 500; the probe resolved
\* afterwards and nothing was written.
C15_Witness ==
    /\ handler.pc = "responded"
    /\ handler.timer = "fired"
    /\ handler.reason = {"timeout"}
    /\ handler.probe = "resolved"
    /\ handler.status = 500
    /\ credentialStore = 0

\* C16: an operation for which the set-up of the NTLM transport failed has
\* failed -- with EnvironmentError when the failure is the legacy-cryptography
\* one, with AuthSetupError otherwise -- holds no handle, and has left no
\* handle in the cache.
C16_NtlmSetupFails ==
    \A p \in Procs :
        proc[p].ntlmError # NoFault =>
           /\ proc[p].pc = "done"
           /\ proc[p].result = IF "digital envelope" \in proc[p].ntlmError
                                THEN "EnvironmentError" ELSE "AuthSetupError"
           /\ proc[p].svc = NoHandle
           /\ exchangeService = NoHandle

\* C17: whatever the adapter has done -- construction, handle acquisition,
\* calendar operations, cleanup -- NODE_OPTIONS has the value the process was
\* started with.
C17_EnvironmentUntouched == nodeOptions = bootOptions

\* C18: when updateEvent has resolved, the item holds what createEvent would
\* have written for the same event: its title and times, its location and
\* body (the empty string when the event has none), and as required
\* attendees the event's attendees followed by its team members, whatever
\* attendees the item held before the update.
C18_UpdateLikeCreate ==
    \A p \in Procs :
        (proc[p].op = "updateEvent" /\ proc[p].pc = "done" /\ proc[p].result = "ok")
            => LET item == items[proc[p].itemId]
               IN  /\ item.location = orEmpty(CalendarEvent(item.ev).location)
                   /\ item.body = orEmpty(CalendarEvent(item.ev).description)
                   /\ item.attendees = attendeesThenTeam(item.ev)

\* The folders of class IPF.Appointment that lie below the message-folder
\* root and whose immediate parent is not Deleted Items.
listedFolders(fs) ==
    {i \in DOMAIN fs : /\ fs[i].class = CalendarClass
                       /\ isUnder(fs, fs[i].id, MsgFolderRoot, MaxDepth)
                       /\ fs[i].parent # DeletedItems}

\* `list` has exactly one entry for each folder in listedFolders(fs), which
\* carries the folder's id, its display name or "", whether the folder has a
\* child folder, and the integration tag.
oneEntryEach(list, fs) ==
    /\ Len(list) = Cardinality(listedFolders(fs))
    /\ \A i \in listedFolders(fs) :
          /\ Cardinality({k \in DOMAIN list : list[k].externalId = fs[i].id}) = 1
          /\ \E k \in DOMAIN list :
                list[k] = [externalId |-> fs[i].id,
                           name |-> IF fs[i].name = NoName THEN "" ELSE fs[i].name,
                           primary |-> \E j \in DOMAIN fs : fs[j].parent = fs[i].id,
                           integration |-> "exchange_calendar"]

C20_UpgradeSuggested ==
    \A n \in DOMAIN validation :
        LET config == validation[n].config
            result == validation[n].result
        IN  (/\ ~result.threw
             /\ ~missing(config, "exchangeVersion")
             /\ config.exchangeVersion \in VersionValues)
                => ((\E k \in DOMAIN result.suggestions : result.suggestions[k] = Upgrade)
                        <=> config.exchangeVersion < Exchange2013)

\* C21: when deleteEvent has succeeded the item is not in its calendar folder
\* but in the Deleted Items folder, and no item the adapter created is ever
\* purged or anywhere but in its calendar or in Deleted Items.
C21_SoftDelete ==
    /\ \A p \in Procs :
          returnedOk(p, "deleteEvent") =>
              items[proc[p].itemId].where = "deleteditems"
    /\ \A u \in Uids : items[u].where \in {"none", "calendar", "deleteditems"}

\* A deleteEvent on an item that was in its calendar has succeeded, and the
\* item is in Deleted Items.
C21_Witness ==
    \E p \in Procs :
        /\ returnedOk(p, "deleteEvent")
        /\ proc[p].whereAtStart = "calendar"
        /\ proc[p].itemId = proc[p].uid
        /\ items[proc[p].uid].where = "deleteditems"

\* The operations in progress that hold a handle.
holders == {p \in Procs : proc[p].pc \notin {"idle", "done"} /\ handlesUsed(p) # {}}

\* C22: with STANDARD authentication, however many calls run concurrently, at
\* most one handle has been set up since the adapter was built or last
\* cleaned up, and the operations started since then all hold it; two handles
\* set up with no cleanup() between them occur only with NTLM, the one path
\* on which a call waits (for the import of the transport) before it stores
\* its handle: no STANDARD call is ever found waiting there.
C22_OneHandleUnlessNtlm ==
    /\ credential = GoodBlob(STANDARD) =>
          /\ constructed <= mark + 1
          /\ \A p \in Procs : proc[p].pending = NoHandle /\ proc[p].pc # "import"
          /\ \A p \in holders :
                proc[p].startMark = mark =>
                    handlesUsed(p) = {exchangeService} /\ constructed = mark + 1
    /\ constructed > mark + 1 => credential = GoodBlob(NTLM)

\* With STANDARD authentication and no cleanup(), two operations are in
\* progress at once and both hold the one handle that was constructed.
C22_Witness ==
    /\ credential = GoodBlob(STANDARD)
    /\ ~cleaned
    /\ constructed = 1
    /\ \E p, q \in holders :
          /\ p # q
          /\ handlesUsed(p) = {1}
          /\ handlesUsed(q) = {1}

\* The calendars listCalendars returns that the request selects, in the order
\* listCalendars returns them.
selectedListed(req) ==
    SelectSeq(listCalendarsResult(folders, DeletedItems),
              LAMBDA c : \E j \in DOMAIN req.sel : req.sel[j] = c.externalId)

\* The busy list of one calendar for a request: the {start, end} of its
\* appointments that overlap the window and are not Free, in server order.
busyList(c, req) ==
    LET hits == SelectSeq(appointments[c],
                          LAMBDA a : a.start < req.to /\ a.end > req.from /\ a.status # Free)
    IN  [i \in DOMAIN hits |-> interval(hits[i])]

RECURSIVE busyLists(_, _)
\* The busy lists of the given calendars, one after the other.
busyLists(cals, req) ==
    IF cals = <<>> THEN <<>>
    ELSE busyList(Head(cals).externalId, req) \o busyLists(Tail(cals), req)

\* C23: the queries of a getAvailability call are one for each calendar that
\* listCalendars returned and the request selects, in the order of
\* listCalendars, none twice and none for an id listCalendars did not return;
\* the list the call returns is these calendars' busy lists one after the
\* other in that order, in whatever order the queries were answered.
C23_ListOrder ==
    \A p \in Procs :
        proc[p].op = "getAvailability" =>
           LET req == proc[p].req
               qs == proc[p].queries
               cals == selectedListed(req)
           IN  /\ (proc[p].pc = "join" \/ returnedOk(p, "getAvailability")) =>
                     /\ Len(qs) = Len(cals)
                     /\ \A i \in DOMAIN qs : qs[i].cal = cals[i].externalId
                     /\ \A i, j \in DOMAIN qs : qs[i].cal = qs[j].cal => i = j
               /\ returnedOk(p, "getAvailability") =>
                     proc[p].retList = busyLists(cals, req)

\* getAvailability has returned the busy lists of two calendars, both with
\* entries, for a selection that names them in the other order, one of them
\* twice, beside an id that is not listed; the second query was answered
\* before the first.
C23_Witness ==
    \E p \in Procs :
        /\ returnedOk(p, "getAvailability")
        /\ proc[p].req.sel = << "team", "cal", "team", "gone" >>
        /\ Len(proc[p].queries) = 2
        /\ proc[p].answered = << 2, 1 >>
        /\ proc[p].queries[1].cal = "cal"
        /\ busyList("cal", proc[p].req) # <<>>
        /\ busyList("team", proc[p].req) # <<>>
        /\ proc[p].retList = busyList("cal", proc[p].req) \o busyList("team", proc[p].req)

=============================================================================
